---- MODULE Spec2Model ----
(***************************************************************************)
(* A model of offline_currency_converter_en.py: one run of the converter   *)
(* (connectivity probe, load of the local store, provider fetch, save,     *)
(* choice of the active snapshot, status message, interactive conversion   *)
(* loop, exit code), and its pure functions.                               *)
(*                                                                         *)
(* Data.  A Python dict is a function whose DOMAIN is its set of keys, so  *)
(* "key in d" is  key \in DOMAIN d.  Python's None is the record None.     *)
(* The value under "rates" is [isdict, map]: isdict is isinstance(.,dict)  *)
(* and map the mapping code -> rate.  Rates are integers (multiples of a   *)
(* common unit, which cancels in the cross rate) and a conversion result   *)
(* is an exact fraction num/den in lowest terms.  Time is counted in       *)
(* units of 1/UnitsPerDay day.                                             *)
(***************************************************************************)
EXTENDS Integers, Sequences, FiniteSets, TLC

VARIABLES
    pc,                 \* position of the run in __main__ / main()
    now,                \* the wall clock (time.time(), datetime.now())
    file,               \* content of DB_FILE on disk
    file0,              \* content of DB_FILE when the run started (history)
    net,                \* SpecFetch: the answer of each endpoint of API_URLS
    internet_available, \* main(): result of check_internet()
    db_data,            \* main(): result of load_db()
    fresh_data,         \* main(): result of fetch_rates()
    contacted,          \* endpoints fetch_rates has sent a request to (history)
    rates_data,         \* main(): the active snapshot
    status_message,     \* main(): result of display_status_message()
    currencies,         \* main(): result of get_available_currencies()
    src_code,           \* main(): source currency of the round
    amount,             \* main(): amount of the round
    tgt_code,           \* main(): target currency of the round
    result,             \* main(): outcome of perform_conversion()
    success,            \* __main__: the variable success
    exit_code,          \* argument of sys.exit(), -1 while running
    ended_by,           \* why main() ended (history)
    loads,              \* number of load_db() calls (history)
    saves,              \* number of completed save_db() calls (history)
    pending_round       \* how the last completed round ended, "" once the
                        \* repeat prompt was answered yes after it (history)

vars == <<pc, now, file, file0, net, internet_available, db_data, fresh_data,
          contacted, rates_data, status_message, currencies, src_code, amount,
          tgt_code, result, success, exit_code, ended_by, loads, saves,
          pending_round>>

----------------------------------------------------------------------------
(* Bounds of the model *)

MaxRate == 2        \* rates range over -1..MaxRate
MaxAmount == 2      \* amounts typed by the user range over 0..MaxAmount
UnitsPerDay == 2    \* clock units per day
MaxAgeDays == 8     \* stored timestamps are up to MaxAgeDays days (and a half) old

----------------------------------------------------------------------------
(* Configuration *)

\* An endpoint URL as the list url.split('/').
API_URLS ==
    << <<"https:", "", "api.exchangerate-api.com", "v4", "latest", "USD">>,
       <<"https:", "", "api.exchangerate-api.com", "v4", "latest", "EUR">> >>

MAX_AMOUNT == 1000000000

\* The catalog, in insertion order, as (code, name) pairs.  Its first three
\* entries; the other nineteen are treated by the code in the same way.
CURRENCY_NAMES ==
    << <<"USD", "US Dollar">>, <<"EUR", "Euro">>, <<"RUB", "Russian Ruble">> >>

required_currencies == <<"USD", "EUR", "RUB">>

test_urls == <<"https://api.exchangerate-api.com", "https://www.google.com",
               "https://www.cloudflare.com">>

----------------------------------------------------------------------------
(* Values *)

None == [none |-> TRUE]

\* Python truthiness of a dict-or-None value.
Truthy(d) == d # None /\ DOMAIN d # {}

CatalogCodes == {CURRENCY_NAMES[i][1] : i \in 1..Len(CURRENCY_NAMES)}

\* Codes that occur in rate data: the catalog's and one the catalog lacks.
RateCodes == CatalogCodes \cup {"XYZ"}

RateVals == (0 - 1)..MaxRate

RateMaps == UNION {[D -> RateVals] : D \in SUBSET RateCodes}

RatesDict(m) == [isdict |-> TRUE, map |-> m]

\* A "rates" value that is not a dict (a list, a string, a number).
RatesNotDict == [isdict |-> FALSE, map |-> [c \in {} |-> 0]]

\* A dict with the given keys: the provider's body or the stored document.
MkDict(keys, rates, base, ts) ==
    [k \in keys |->
        CASE k = "rates" -> rates
          [] k = "base" -> base
          [] k = "date" -> "2025-08-25"
          [] k = "timestamp" -> ts
          [] k = "date_fetched" -> ts \div UnitsPerDay]

JsonDict(d) == [type |-> "dict", d |-> d]
JsonList == [type |-> "list", d |-> None]
JsonNumber == [type |-> "number", d |-> None]

----------------------------------------------------------------------------
(* Exact fractions *)

RECURSIVE GCD(_, _)
GCD(a, b) == IF b = 0 THEN a ELSE GCD(b, a % b)

Abs(a) == IF a < 0 THEN 0 - a ELSE a

\* n/d in lowest terms, d > 0.
Frac(n, d) ==
    LET g == GCD(Abs(n), Abs(d))
        s == IF d < 0 THEN 0 - 1 ELSE 1
    IN  [num |-> (s * n) \div g, den |-> (s * d) \div g]

FracTimes(a, q) == Frac(a * q.num, q.den)

----------------------------------------------------------------------------
(* check_internet: reach[i] says whether requests.head(test_urls[i]) returns *)

RECURSIVE check_internet_loop(_, _)
check_internet_loop(reach, i) ==
    IF i > Len(test_urls) THEN FALSE
    ELSE IF reach[i] THEN TRUE
    ELSE check_internet_loop(reach, i + 1)

check_internet(reach) == check_internet_loop(reach, 1)

----------------------------------------------------------------------------
(* validate_api_response *)

required_fields == <<"rates", "base", "date">>

\* "if expected_base and ...": no expected base is the falsy value.
NoBase == ""

RECURSIVE first_missing(_, _)
first_missing(data, i) ==
    IF i > Len(required_fields) THEN ""
    ELSE IF required_fields[i] \notin DOMAIN data THEN required_fields[i]
    ELSE first_missing(data, i + 1)

validate_api_response_nodictcheck(data, expected_base) ==
    IF first_missing(data, 1) # ""
    THEN [valid |-> FALSE, message |-> "missing required field"]
    ELSE IF expected_base # NoBase /\ data["base"] # expected_base
    THEN [valid |-> FALSE, message |-> "base does not match expected"]
    ELSE [valid |-> TRUE, message |-> "Data is valid"]

validate_api_response_nobasecheck(data, expected_base) ==
    IF first_missing(data, 1) # ""
    THEN [valid |-> FALSE, message |-> "missing required field"]
    ELSE IF ~ data["rates"].isdict
    THEN [valid |-> FALSE, message |-> "rates must be a dictionary"]
    ELSE [valid |-> TRUE, message |-> "Data is valid"]

validate_api_response(data, expected_base) ==
    IF first_missing(data, 1) # ""
    THEN [valid |-> FALSE, message |-> "missing required field"]
    ELSE IF ~ data["rates"].isdict
    THEN [valid |-> FALSE, message |-> "rates must be a dictionary"]
    ELSE IF expected_base # NoBase /\ data["base"] # expected_base
    THEN [valid |-> FALSE, message |-> "base does not match expected"]
    ELSE [valid |-> TRUE, message |-> "Data is valid"]

----------------------------------------------------------------------------
(* fetch_rates.  A response is [kind, body]: kind "RequestException" (no    *)
(* connection, timeout, HTTP error status), "JSONDecodeError" (the body is  *)
(* not JSON) or "json" with the decoded body.                               *)

ResponseFailed == [kind |-> "RequestException", body |-> None]
ResponseNotJson == [kind |-> "JSONDecodeError", body |-> None]
ResponseJson(j) == [kind |-> "json", body |-> j]

\* expected_base = api_url.split('/')[-1]
expected_base_of(api_url) == api_url[Len(api_url)]

\* date_str = datetime.now().strftime(...): the calendar day of the clock.
date_str(t) == t \div UnitsPerDay

\* data['date_fetched'] = date_str; data['timestamp'] = int(time.time())
stamp(data, t) ==
    [k \in DOMAIN data \cup {"date_fetched", "timestamp"} |->
        IF k = "date_fetched" THEN date_str(t)
        ELSE IF k = "timestamp" THEN t
        ELSE data[k]]

\* One pass of the for loop's try block on endpoint i: TRUE when it reaches
\* "return data".  A body that is a number makes "field not in data" raise
\* TypeError (except Exception); a list holds no field, so it is invalid.
endpoint_ok(responses, i) ==
    LET r == responses[i] IN
    /\ r.kind = "json"
    /\ r.body.type = "dict"
    /\ validate_api_response(r.body.d, expected_base_of(API_URLS[i])).valid

RECURSIVE fetch_loop(_, _, _, _)
fetch_loop(responses, t, i, asked) ==
    IF i > Len(API_URLS) THEN [data |-> None, contacted |-> asked]
    ELSE IF endpoint_ok(responses, i)
    THEN [data |-> stamp(responses[i].body.d, t),
          contacted |-> Append(asked, API_URLS[i])]
    ELSE fetch_loop(responses, t, i + 1, Append(asked, API_URLS[i]))

\* The result of fetch_rates() and the endpoints it has contacted.
fetch_rates(responses, t) == fetch_loop(responses, t, 1, <<>>)

----------------------------------------------------------------------------
(* The local store: load_db, save_db.  A file is [kind, json]: kind         *)
(* "missing" (os.path.exists is false), "unreadable" (open or json.load     *)
(* raises) or "json" with the decoded document.                             *)

FileMissing == [kind |-> "missing", json |-> None]
FileUnreadable == [kind |-> "unreadable", json |-> None]
FileJson(j) == [kind |-> "json", json |-> j]

load_db(f) ==
    IF f.kind = "missing" THEN None
    ELSE IF f.kind = "unreadable" THEN None
    ELSE IF f.json.type # "dict" THEN None
    ELSE IF ~ validate_api_response(f.json.d, NoBase).valid THEN None
    ELSE f.json.d

\* json.dump(data, f) into the truncated file.
save_db(data) == FileJson(JsonDict(data))

----------------------------------------------------------------------------
(* is_data_fresh, display_status_message *)

\* (datetime.now() - datetime.fromtimestamp(ts)).days
days_between(t, ts) == (t - ts) \div UnitsPerDay

max_days == 7

is_data_fresh(data, t) ==
    IF "timestamp" \notin DOMAIN data THEN FALSE
    ELSE days_between(t, data["timestamp"]) < max_days

Message(wording, class, date) ==
    [kind |-> "message", wording |-> wording, class |-> class, date |-> date]
KeyError(key) ==
    [kind |-> "KeyError", wording |-> key, class |-> "", date |-> 0]

\* The elif db_data branch, the same in the online and the offline half but
\* for the wording: reads the keys timestamp, then date_fetched.
stored_status(db, t, wording) ==
    IF "timestamp" \notin DOMAIN db THEN KeyError("timestamp")
    ELSE IF "date_fetched" \notin DOMAIN db THEN KeyError("date_fetched")
    ELSE IF days_between(t, db["timestamp"]) > 7
    THEN Message(wording, "outdated", db["date_fetched"])
    ELSE Message(wording, "current", db["date_fetched"])

display_status_message(internet, db, fresh, t) ==
    IF internet
    THEN IF Truthy(fresh)
         THEN IF "date_fetched" \notin DOMAIN fresh THEN KeyError("date_fetched")
              ELSE Message("updated", "fresh", fresh["date_fetched"])
         ELSE IF Truthy(db) THEN stored_status(db, t, "not updated")
         ELSE Message("no data", "check internet", 0)
    ELSE IF Truthy(db) THEN stored_status(db, t, "no internet")
         ELSE Message("no data", "no internet", 0)

----------------------------------------------------------------------------
(* get_available_currencies, perform_conversion *)

RECURSIVE available_loop_nonneg(_, _, _)
available_loop_nonneg(rates, i, available) ==
    IF i > Len(CURRENCY_NAMES) THEN available
    ELSE available_loop_nonneg(rates, i + 1,
            IF /\ CURRENCY_NAMES[i][1] \in DOMAIN rates
               /\ rates[CURRENCY_NAMES[i][1]] >= 0
            THEN Append(available, CURRENCY_NAMES[i])
            ELSE available)

RECURSIVE available_loop(_, _, _)
available_loop(rates, i, available) ==
    IF i > Len(CURRENCY_NAMES) THEN available
    ELSE available_loop(rates, i + 1,
            IF /\ CURRENCY_NAMES[i][1] \in DOMAIN rates
               /\ rates[CURRENCY_NAMES[i][1]] > 0
            THEN Append(available, CURRENCY_NAMES[i])
            ELSE available)

get_available_currencies_nonneg(data) ==
    available_loop_nonneg(data["rates"].map, 1, <<>>)

get_available_currencies_unfiltered(data) == CURRENCY_NAMES

get_available_currencies(data) == available_loop(data["rates"].map, 1, <<>>)

NoResult == [kind |-> "none", num |-> 0, den |-> 1, text |-> ""]
Value(q) == [kind |-> "value", num |-> q.num, den |-> q.den, text |-> ""]
ValueError(text) == [kind |-> "ValueError", num |-> 0, den |-> 1, text |-> text]

perform_conversion_inverted(data, src, tgt, amt) ==
    LET rates == data["rates"].map IN
    IF src \notin DOMAIN rates THEN ValueError("source not available")
    ELSE IF tgt \notin DOMAIN rates THEN ValueError("target not available")
    ELSE IF rates[src] <= 0 THEN ValueError("source rate invalid")
    ELSE IF rates[tgt] <= 0 THEN ValueError("target rate invalid")
    ELSE Value(FracTimes(amt, Frac(rates[src], rates[tgt])))

perform_conversion(data, src, tgt, amt) ==
    LET rates == data["rates"].map IN
    IF src \notin DOMAIN rates THEN ValueError("source not available")
    ELSE IF tgt \notin DOMAIN rates THEN ValueError("target not available")
    ELSE IF rates[src] <= 0 THEN ValueError("source rate invalid")
    ELSE IF rates[tgt] <= 0 THEN ValueError("target rate invalid")
    ELSE Value(FracTimes(amt, Frac(rates[tgt], rates[src])))

----------------------------------------------------------------------------
(* The environment of a run: store files, provider answers, the clock *)

\* The clock of the run, late enough for every stored timestamp to be >= 0.
Now0 == (MaxAgeDays + 1) * UnitsPerDay

AllFields == {"rates", "base", "date", "timestamp", "date_fetched"}

RatesAllPositive == ("USD" :> 1) @@ ("EUR" :> 2) @@ ("RUB" :> 1) @@ ("XYZ" :> 2)
RatesRubZero == ("USD" :> 2) @@ ("EUR" :> 1) @@ ("RUB" :> 0)
RatesNonePositive == ("USD" :> (0 - 1)) @@ ("EUR" :> 0)
RatesNoCatalogCode == ("XYZ" :> 1)
RatesEmpty == [c \in {} |-> 0]

\* The rate mappings that providers and store files of a run carry.
RunRateMaps ==
    {RatesAllPositive, RatesRubZero, RatesNonePositive, RatesNoCatalogCode,
     RatesEmpty}

Bases == {expected_base_of(API_URLS[i]) : i \in 1..Len(API_URLS)}

\* A provider's body: the three fields of the API, some possibly missing.
ApiFields == {"rates", "base", "date"}

Responses ==
    {ResponseFailed, ResponseNotJson, ResponseJson(JsonNumber),
     ResponseJson(JsonList)}
    \cup {ResponseJson(JsonDict(MkDict(ApiFields, RatesDict(m), b, 0))) :
            m \in RunRateMaps, b \in Bases}
    \cup {ResponseJson(JsonDict(MkDict(ApiFields, RatesNotDict, b, 0))) :
            b \in Bases}
    \cup {ResponseJson(JsonDict(MkDict(ApiFields \ {f}, RatesDict(RatesAllPositive), b, 0))) :
            f \in ApiFields, b \in Bases}

\* Ages of stored timestamps, in clock units: from one unit in the future to
\* MaxAgeDays days and a half.
Ages == (0 - 1)..(MaxAgeDays * UnitsPerDay + 1)

StoreFiles ==
    {FileMissing, FileUnreadable, FileJson(JsonNumber), FileJson(JsonList)}
    \cup {FileJson(JsonDict(MkDict(AllFields, RatesDict(m), "USD", Now0))) :
            m \in RunRateMaps}
    \cup {FileJson(JsonDict(MkDict(AllFields, RatesDict(RatesAllPositive), "USD", Now0 - a))) :
            a \in Ages}
    \cup {FileJson(JsonDict(MkDict(AllFields \ {f}, RatesDict(RatesAllPositive), "USD", Now0))) :
            f \in AllFields}
    \cup {FileJson(JsonDict(MkDict(AllFields, RatesNotDict, "USD", Now0)))}

\* What the user may type at the amount prompt.
AmountInputs == (0..MaxAmount) \cup {MAX_AMOUNT + 1}

NoMessage == [kind |-> "none", wording |-> "", class |-> "", date |-> 0]

----------------------------------------------------------------------------
(* main() and __main__, statement by statement *)

\* "if internet_available:"
attempts_fetch_always(internet) == TRUE

attempts_fetch(internet) == internet

\* "if fresh_data: save_db(fresh_data)"
after_fetch_nosave(fresh) == "choose"

after_fetch_always_save(fresh) == "save"

after_fetch(fresh) == IF Truthy(fresh) THEN "save" ELSE "choose"

\* "rates_data = fresh_data if fresh_data else db_data"
choose_active_stored_first(fresh, db) == IF Truthy(db) THEN db ELSE fresh

choose_active(fresh, db) == IF Truthy(fresh) THEN fresh ELSE db

\* "sys.exit(0 if success else 1)"
exit_status_zero(ok) == 0

exit_status(ok) == IF ok THEN 0 ELSE 1

InMain ==
    pc \in {"start", "load", "update", "save", "choose", "status", "check",
            "list", "src", "amount", "tgt", "convert", "repeat"}

\* main() ends: by return (value ok) or by an exception that __main__ catches,
\* which leaves success False.  Control is then at sys.exit.
Ends(ok, why) ==
    /\ pc' = "returned"
    /\ success' = ok
    /\ ended_by' = why

Init ==
    /\ pc = "start"
    /\ now = Now0
    /\ file \in StoreFiles
    /\ file0 = file
    /\ net = <<>>
    /\ internet_available = FALSE
    /\ db_data = None
    /\ fresh_data = None
    /\ contacted = <<>>
    /\ rates_data = None
    /\ status_message = NoMessage
    /\ currencies = <<>>
    /\ src_code = ""
    /\ amount = 0
    /\ tgt_code = ""
    /\ result = NoResult
    /\ success = FALSE
    /\ exit_code = 0 - 1
    /\ ended_by = ""
    /\ loads = 0
    /\ saves = 0
    /\ pending_round = ""

\* internet_available = check_internet()
CheckInternet ==
    /\ pc = "start"
    /\ \E reach \in [1..Len(test_urls) -> BOOLEAN] :
          internet_available' = check_internet(reach)
    /\ pc' = "load"
    /\ UNCHANGED <<now, file, file0, net, db_data, fresh_data, contacted,
                   rates_data, status_message, currencies, src_code, amount,
                   tgt_code, result, success, exit_code, ended_by, loads, saves,
                   pending_round>>

\* db_data = load_db()
LoadDb ==
    /\ pc = "load"
    /\ db_data' = load_db(file)
    /\ loads' = loads + 1
    /\ pc' = "update"
    /\ UNCHANGED <<now, file, file0, net, internet_available, fresh_data,
                   contacted, rates_data, status_message, currencies, src_code,
                   amount, tgt_code, result, success, exit_code, ended_by, saves,
                   pending_round>>

\* fresh_data = fetch_rates(), under "if internet_available:"; the answers of
\* the endpoints are drawn at the call and not kept
FetchRates ==
    /\ pc = "update"
    /\ attempts_fetch(internet_available)
    /\ \E responses \in [1..Len(API_URLS) -> Responses] :
          LET r == fetch_rates(responses, now) IN
          /\ fresh_data' = r.data
          /\ contacted' = r.contacted
          /\ pc' = after_fetch(r.data)
    /\ UNCHANGED <<now, file, file0, net, internet_available, db_data,
                   rates_data, status_message, currencies, src_code, amount,
                   tgt_code, result, success, exit_code, ended_by, loads, saves,
                   pending_round>>

\* "if internet_available:" is false: fresh_data stays None
SkipFetch ==
    /\ pc = "update"
    /\ ~ attempts_fetch(internet_available)
    /\ pc' = "choose"
    /\ UNCHANGED <<now, file, file0, net, internet_available, db_data,
                   fresh_data, contacted, rates_data, status_message,
                   currencies, src_code, amount, tgt_code, result, success,
                   exit_code, ended_by, loads, saves,
                   pending_round>>

\* save_db(fresh_data) completes
SaveDb ==
    /\ pc = "save"
    /\ file' = save_db(fresh_data)
    /\ saves' = saves + 1
    /\ pc' = "choose"
    /\ UNCHANGED <<now, file0, net, internet_available, db_data, fresh_data,
                   contacted, rates_data, status_message, currencies, src_code,
                   amount, tgt_code, result, success, exit_code, ended_by, loads,
                   pending_round>>

\* save_db(fresh_data) raises (OSError): open() failed and the file is as it
\* was, or the write failed after open() truncated the file
SaveDbFails ==
    /\ pc = "save"
    /\ file' \in {file, FileUnreadable}
    /\ Ends(FALSE, "error")
    /\ UNCHANGED <<now, file0, net, internet_available, db_data, fresh_data,
                   contacted, rates_data, status_message, currencies, src_code,
                   amount, tgt_code, result, exit_code, loads, saves,
                   pending_round>>

\* rates_data = fresh_data if fresh_data else db_data
Choose ==
    /\ pc = "choose"
    /\ rates_data' = choose_active(fresh_data, db_data)
    /\ pc' = "status"
    /\ UNCHANGED <<now, file, file0, net, internet_available, db_data,
                   fresh_data, contacted, status_message, currencies, src_code,
                   amount, tgt_code, result, success, exit_code, ended_by,
                   loads, saves,
                   pending_round>>

\* status_message = display_status_message(...); a KeyError leaves main()
DisplayStatus ==
    /\ pc = "status"
    /\ LET m == display_status_message(internet_available, db_data, fresh_data, now) IN
       /\ status_message' = m
       /\ IF m.kind = "KeyError"
          THEN Ends(FALSE, "error")
          ELSE /\ pc' = "check"
               /\ UNCHANGED <<success, ended_by>>
    /\ UNCHANGED <<now, file, file0, net, internet_available, db_data,
                   fresh_data, contacted, rates_data, currencies, src_code,
                   amount, tgt_code, result, exit_code, loads, saves,
                   pending_round>>

\* "if not rates_data: ... return False"
CheckData ==
    /\ pc = "check"
    /\ IF ~ Truthy(rates_data)
       THEN Ends(FALSE, "no data")
       ELSE /\ pc' = "list"
            /\ UNCHANGED <<success, ended_by>>
    /\ UNCHANGED <<now, file, file0, net, internet_available, db_data,
                   fresh_data, contacted, rates_data, status_message,
                   currencies, src_code, amount, tgt_code, result, exit_code,
                   loads, saves,
                   pending_round>>

\* currencies = get_available_currencies(rates_data);
\* "if not currencies: ... return False"
ListCurrencies ==
    /\ pc = "list"
    /\ currencies' = get_available_currencies(rates_data)
    /\ IF currencies' = <<>>
       THEN Ends(FALSE, "no currencies")
       ELSE /\ pc' = "src"
            /\ UNCHANGED <<success, ended_by>>
    /\ UNCHANGED <<now, file, file0, net, internet_available, db_data,
                   fresh_data, contacted, rates_data, status_message, src_code,
                   amount, tgt_code, result, exit_code, loads, saves,
                   pending_round>>

\* get_user_currency_choice: the entry chosen by a number typed by the user,
\* None for a number outside 1..len(currencies) (the prompt is repeated)
get_user_currency_choice(list, choice) ==
    IF 1 <= choice /\ choice <= Len(list) THEN list[choice] ELSE None

\* get_user_amount: whether the typed amount is returned (else asked again)
amount_accepted(a) == a > 0 /\ a <= MAX_AMOUNT

\* The top of "while True:".  The variables of the previous round are all
\* assigned again before they are read, so the model clears them here.
NewRound ==
    /\ pc' = "src"
    /\ src_code' = ""
    /\ amount' = 0
    /\ tgt_code' = ""
    /\ result' = NoResult

\* src_code, src_name = get_user_currency_choice(currencies, ...)
SelectSource ==
    /\ pc = "src"
    /\ \E choice \in 0..(Len(currencies) + 1) :
          LET e == get_user_currency_choice(currencies, choice) IN
          IF e = None
          THEN UNCHANGED <<pc, src_code>>
          ELSE src_code' = e[1] /\ pc' = "amount"
    /\ UNCHANGED <<now, file, file0, net, internet_available, db_data,
                   fresh_data, contacted, rates_data, status_message,
                   currencies, amount, tgt_code, result, success, exit_code,
                   ended_by, loads, saves,
                   pending_round>>

\* amount = get_user_amount()
EnterAmount ==
    /\ pc = "amount"
    /\ \E a \in AmountInputs :
          IF amount_accepted(a)
          THEN amount' = a /\ pc' = "tgt"
          ELSE UNCHANGED <<pc, amount>>
    /\ UNCHANGED <<now, file, file0, net, internet_available, db_data,
                   fresh_data, contacted, rates_data, status_message,
                   currencies, src_code, tgt_code, result, success, exit_code,
                   ended_by, loads, saves,
                   pending_round>>

\* "if src_code == tgt_code:"
same_currency_never(src, tgt) == FALSE

same_currency(src, tgt) == src = tgt

\* tgt_code, tgt_name = get_user_currency_choice(currencies, ...);
\* "if src_code == tgt_code: ... continue"
SelectTarget ==
    /\ pc = "tgt"
    /\ \E choice \in 0..(Len(currencies) + 1) :
          LET e == get_user_currency_choice(currencies, choice) IN
          IF e = None
          THEN UNCHANGED <<pc, src_code, amount, tgt_code, result,
                           pending_round>>
          ELSE IF same_currency(src_code, e[1])
          THEN NewRound /\ pending_round' = "same currency"
          ELSE /\ tgt_code' = e[1]
               /\ pc' = "convert"
               /\ UNCHANGED <<src_code, amount, result, pending_round>>
    /\ UNCHANGED <<now, file, file0, net, internet_available, db_data,
                   fresh_data, contacted, rates_data, status_message,
                   currencies, success, exit_code, ended_by, loads, saves>>

\* The try block of the round: perform_conversion, then the prints, the last
\* of which reads rates_data['date_fetched']; "except Exception" catches a
\* ValueError or KeyError, and the round goes on to the repeat prompt.
Convert ==
    /\ pc = "convert"
    /\ LET r == perform_conversion(rates_data, src_code, tgt_code, amount) IN
       result' = IF r.kind = "value" /\ "date_fetched" \notin DOMAIN rates_data
                 THEN [kind |-> "KeyError", num |-> 0, den |-> 1,
                       text |-> "date_fetched"]
                 ELSE r
    /\ pending_round' = IF result'.kind = "value" THEN "converted"
                        ELSE "conversion error"
    /\ pc' = "repeat"
    /\ UNCHANGED <<now, file, file0, net, internet_available, db_data,
                   fresh_data, contacted, rates_data, status_message,
                   currencies, src_code, amount, tgt_code, success, exit_code,
                   ended_by, loads, saves>>

\* "Would you like to perform another conversion? (yes/no)"
Repeat ==
    /\ pc = "repeat"
    /\ \E choice \in {"yes", "no", "maybe"} :
          IF choice = "yes"
          THEN /\ NewRound
               /\ pending_round' = ""
               /\ UNCHANGED <<success, ended_by>>
          ELSE IF choice = "no"
          THEN Ends(TRUE, "user said no")
               /\ UNCHANGED <<src_code, amount, tgt_code, result,
                              pending_round>>
          ELSE UNCHANGED <<pc, src_code, amount, tgt_code, result, success,
                           ended_by, pending_round>>
    /\ UNCHANGED <<now, file, file0, net, internet_available, db_data,
                   fresh_data, contacted, rates_data, status_message,
                   currencies, exit_code, loads, saves>>

\* Ctrl-C while main() runs: "except KeyboardInterrupt"
Interrupt ==
    /\ InMain
    /\ Ends(FALSE, "interrupt")
    /\ UNCHANGED <<now, file, file0, net, internet_available, db_data,
                   fresh_data, contacted, rates_data, status_message,
                   currencies, src_code, amount, tgt_code, result, exit_code,
                   loads, saves,
                   pending_round>>

\* input() raises (EOFError on a closed stdin): "except Exception"
InputFails ==
    /\ pc \in {"src", "amount", "tgt", "repeat"}
    /\ Ends(FALSE, "error")
    /\ UNCHANGED <<now, file, file0, net, internet_available, db_data,
                   fresh_data, contacted, rates_data, status_message,
                   currencies, src_code, amount, tgt_code, result, exit_code,
                   loads, saves,
                   pending_round>>

\* sys.exit(0 if success else 1)
SysExit ==
    /\ pc = "returned"
    /\ exit_code' = exit_status(success)
    /\ pc' = "exited"
    /\ UNCHANGED <<now, file, file0, net, internet_available, db_data,
                   fresh_data, contacted, rates_data, status_message,
                   currencies, src_code, amount, tgt_code, result, success,
                   ended_by, loads, saves,
                   pending_round>>

Next ==
    \/ CheckInternet
    \/ LoadDb
    \/ FetchRates
    \/ SkipFetch
    \/ SaveDb
    \/ SaveDbFails
    \/ Choose
    \/ DisplayStatus
    \/ CheckData
    \/ ListCurrencies
    \/ SelectSource
    \/ EnterAmount
    \/ SelectTarget
    \/ Convert
    \/ Repeat
    \/ Interrupt
    \/ InputFails
    \/ SysExit

Spec == Init /\ [][Next]_vars

----------------------------------------------------------------------------
(* fetch_rates on its own: every pair of provider answers *)

InitFetch ==
    /\ pc = "call fetch_rates"
    /\ now = Now0
    /\ file = FileMissing
    /\ file0 = file
    /\ net \in [1..Len(API_URLS) -> Responses]
    /\ internet_available = TRUE
    /\ db_data = None
    /\ fresh_data = None
    /\ contacted = <<>>
    /\ rates_data = None
    /\ status_message = NoMessage
    /\ currencies = <<>>
    /\ src_code = ""
    /\ amount = 0
    /\ tgt_code = ""
    /\ result = NoResult
    /\ success = FALSE
    /\ exit_code = 0 - 1
    /\ ended_by = ""
    /\ loads = 0
    /\ saves = 0
    /\ pending_round = ""

CallFetchRates ==
    /\ pc = "call fetch_rates"
    /\ LET r == fetch_rates(net, now) IN
       /\ fresh_data' = r.data
       /\ contacted' = r.contacted
    /\ pc' = "fetch_rates returned"
    /\ UNCHANGED <<now, file, file0, net, internet_available, db_data,
                   rates_data, status_message, currencies, src_code, amount,
                   tgt_code, result, success, exit_code, ended_by, loads, saves,
                   pending_round>>

NextFetch == CallFetchRates

SpecFetch == InitFetch /\ [][NextFetch]_vars

----------------------------------------------------------------------------
(* get_available_currencies and perform_conversion on their own: every      *)
(* rates mapping over RateCodes, every pair of codes, every amount          *)

InitConv ==
    /\ pc = "call"
    /\ now = Now0
    /\ file = FileMissing
    /\ file0 = file
    /\ net = <<>>
    /\ internet_available = FALSE
    /\ db_data = None
    /\ fresh_data = None
    /\ contacted = <<>>
    /\ rates_data \in {MkDict(AllFields, RatesDict(m), "USD", Now0) : m \in RateMaps}
    /\ status_message = NoMessage
    /\ currencies = <<>>
    /\ src_code \in RateCodes
    /\ amount \in 0..MaxAmount
    /\ tgt_code \in RateCodes
    /\ result = NoResult
    /\ success = FALSE
    /\ exit_code = 0 - 1
    /\ ended_by = ""
    /\ loads = 0
    /\ saves = 0
    /\ pending_round = ""

CallPerformConversion ==
    /\ pc = "call"
    /\ result' = perform_conversion(rates_data, src_code, tgt_code, amount)
    /\ pc' = "perform_conversion returned"
    /\ UNCHANGED <<now, file, file0, net, internet_available, db_data,
                   fresh_data, contacted, rates_data, status_message,
                   currencies, src_code, amount, tgt_code, success, exit_code,
                   ended_by, loads, saves,
                   pending_round>>

CallGetAvailableCurrencies ==
    /\ pc = "call"
    /\ currencies' = get_available_currencies(rates_data)
    /\ pc' = "get_available_currencies returned"
    /\ UNCHANGED <<now, file, file0, net, internet_available, db_data,
                   fresh_data, contacted, rates_data, status_message, src_code,
                   amount, tgt_code, result, success, exit_code, ended_by,
                   loads, saves,
                   pending_round>>

NextConv == CallPerformConversion \/ CallGetAvailableCurrencies

SpecConv == InitConv /\ [][NextConv]_vars

----------------------------------------------------------------------------
(* Properties *)

\* main() is past the "Attempt to update data" block.
AfterUpdate ==
    pc \in {"save", "choose", "status", "check", "list", "src", "amount",
            "tgt", "convert", "repeat"}

\* main() has assigned rates_data.
AfterChoose ==
    pc \in {"status", "check", "list", "src", "amount", "tgt", "convert",
            "repeat"}

\* The snapshot the store held when the run started, None if it held none.
StoredSnapshot == load_db(file0)

\* The structural validity of a snapshot.
StructurallyValid(d) ==
    /\ d # None
    /\ {"rates", "base", "date"} \subseteq DOMAIN d
    /\ d["rates"].isdict

\* The validity of the data model: non-empty rates, all strictly positive.
AllRatesPositive(d) ==
    /\ StructurallyValid(d)
    /\ DOMAIN d["rates"].map # {}
    /\ \A c \in DOMAIN d["rates"].map : d["rates"].map[c] > 0

HasPositiveRate(d, c) ==
    /\ c \in DOMAIN d["rates"].map
    /\ d["rates"].map[c] > 0

\* C1: whatever the probe returned, once the run has chosen, the active
\* snapshot is the fetched snapshot if the fetch returned one, otherwise the
\* snapshot of the store if it held one, otherwise absent.
C1_ActiveSnapshot ==
    AfterChoose =>
        rates_data = IF fresh_data # None THEN fresh_data
                     ELSE IF StoredSnapshot # None THEN StoredSnapshot
                     ELSE None

\* C1, its case: a fetched snapshot is chosen over a different stored one.
C1_Witness ==
    /\ AfterChoose
    /\ fresh_data # None
    /\ StoredSnapshot # None
    /\ StoredSnapshot # fresh_data
    /\ rates_data = fresh_data

\* C2 as claimed: past the update block, fetch_rates has been attempted (it
\* has contacted an endpoint) whatever the probe returned.
C2_FetchAlwaysAttempted == AfterUpdate => contacted # <<>>

\* C2 as amended: fetch_rates is attempted exactly when check_internet
\* returned true; after a false probe no endpoint is contacted and there is
\* no fetched snapshot.
C2_FetchIffProbe ==
    AfterUpdate =>
        /\ (contacted # <<>>) <=> internet_available
        /\ ~ internet_available => fresh_data = None

\* C2, its case: the probe returned false and the run is past the update.
C2_Witness ==
    /\ AfterChoose
    /\ ~ internet_available
    /\ contacted = <<>>
    /\ rates_data # None

\* C3 as claimed: every saved snapshot and every active snapshot has a
\* non-empty rates mapping with strictly positive rates only.
C3_SavedAndActiveAllPositive ==
    /\ saves > 0 => AllRatesPositive(file.json.d)
    /\ (AfterChoose /\ rates_data # None) => AllRatesPositive(rates_data)

\* C3 as amended: every saved snapshot and every active snapshot is
\* structurally valid (rates, base and date present, rates a mapping, a
\* fetched snapshot's base that of its endpoint); positivity is kept per
\* currency: every currency offered has a strictly positive rate and every
\* computed conversion result rests on two strictly positive rates.
C3_StructurallyValidPositiveUse ==
    /\ saves > 0 => (file = save_db(fresh_data) /\ StructurallyValid(fresh_data))
    /\ fresh_data # None =>
          /\ StructurallyValid(fresh_data)
          /\ contacted # <<>>
          /\ fresh_data["base"] = contacted[Len(contacted)][6]
    /\ (AfterChoose /\ rates_data # None) => StructurallyValid(rates_data)
    /\ \A i \in 1..Len(currencies) : HasPositiveRate(rates_data, currencies[i][1])
    /\ result.kind = "value" =>
          /\ HasPositiveRate(rates_data, src_code)
          /\ HasPositiveRate(rates_data, tgt_code)

\* C3, its case: a fetched snapshot with a zero rate was saved, is the active
\* snapshot, and a conversion was computed against it.
C3_Witness ==
    /\ saves > 0
    /\ rates_data = fresh_data
    /\ rates_data # None
    /\ ~ AllRatesPositive(rates_data)
    /\ result.kind = "value"

\* C4: a fetched snapshot is on disk, by a completed save_db, before it is
\* used: before it is the active snapshot, before the status message, the
\* currency list or a conversion result exists.
C4_SaveBeforeUse ==
    (/\ fresh_data # None
     /\ \/ rates_data # None
        \/ status_message # NoMessage
        \/ currencies # <<>>
        \/ result # NoResult)
    => (saves = 1 /\ file = save_db(fresh_data))

\* C4, its case: a conversion was computed against a fetched snapshot.
C4_Witness ==
    /\ fresh_data # None
    /\ rates_data = fresh_data
    /\ status_message.kind = "message"
    /\ result.kind = "value"
    /\ file = save_db(fresh_data)

\* An answer that fetch_rates accepts from endpoint i, stated on the answer.
GoodAnswer(r, i) ==
    /\ r.kind = "json"
    /\ r.body.type = "dict"
    /\ {"rates", "base", "date"} \subseteq DOMAIN r.body.d
    /\ r.body.d["rates"].isdict
    /\ r.body.d["base"] = API_URLS[i][6]

\* C5: fetch_rates contacts the endpoints in list order, stops at the first
\* good answer and returns its body (stamped with the fetch time), contacts
\* the next endpoint after every other answer, and returns None exactly when
\* no endpoint gave a good answer.
C5_FirstGoodEndpoint ==
    pc = "fetch_rates returned" =>
        LET k == Len(contacted) IN
        /\ k >= 1
        /\ contacted = SubSeq(API_URLS, 1, k)
        /\ \A i \in 1..(k - 1) : ~ GoodAnswer(net[i], i)
        /\ IF GoodAnswer(net[k], k)
           THEN /\ fresh_data # None
                /\ \A f \in DOMAIN net[k].body.d : fresh_data[f] = net[k].body.d[f]
                /\ fresh_data["timestamp"] = now
           ELSE k = Len(API_URLS) /\ fresh_data = None
        /\ (fresh_data = None) <=>
              \A i \in 1..Len(API_URLS) : ~ GoodAnswer(net[i], i)

\* C5, its case: the first endpoint gave a bad answer, the second a good one.
C5_Witness ==
    /\ pc = "fetch_rates returned"
    /\ net[1].kind = "json"
    /\ ~ GoodAnswer(net[1], 1)
    /\ GoodAnswer(net[2], 2)
    /\ fresh_data # None
    /\ Len(contacted) = 2

\* C6: perform_conversion fails when a code is absent from rates, fails when
\* a present rate is <= 0, and otherwise returns amount * rate[target] /
\* rate[source], which is the amount itself when source = target.
C6_Conversion ==
    pc = "perform_conversion returned" =>
        LET m == rates_data["rates"].map IN
        IF src_code \notin DOMAIN m \/ tgt_code \notin DOMAIN m
        THEN result.kind = "ValueError"
        ELSE IF m[src_code] <= 0 \/ m[tgt_code] <= 0
        THEN result.kind = "ValueError"
        ELSE /\ result.kind = "value"
             /\ result.den > 0
             /\ result.num * m[src_code] = amount * m[tgt_code] * result.den
             /\ src_code = tgt_code => (result.num = amount /\ result.den = 1)

\* C6, its case: a conversion between two different currencies whose result
\* is not a whole number.
C6_Witness ==
    /\ pc = "perform_conversion returned"
    /\ result.kind = "value"
    /\ src_code # tgt_code
    /\ result.den # 1

\* The store file of the run is corrupted: unreadable, not a JSON object, or
\* an object without one of the fields the run reads or with a rates field
\* that is no mapping.
CorruptedStore ==
    /\ file0.kind # "missing"
    /\ \/ file0.kind = "unreadable"
       \/ file0.json.type # "dict"
       \/ ~ (AllFields \subseteq DOMAIN file0.json.d)
       \/ ~ file0.json.d["rates"].isdict

\* C7: a corrupted store file never makes the run end through an error: the
\* status message is not replaced by a KeyError leaving main().
C7_CorruptedStoreNeverRaises ==
    CorruptedStore => status_message.kind # "KeyError"

\* C8: the exit code is 0 only after the user answered no to the repeat
\* prompt (which follows a conversion attempt), and 1 in every other case
\* in which the run terminates.
C8_ExitCode ==
    /\ exit_code = 0 => (ended_by = "user said no" /\ result # NoResult)
    /\ pc = "exited" =>
          /\ exit_code \in {0, 1}
          /\ ended_by = "user said no" => exit_code = 0
          /\ ended_by \in {"no data", "no currencies", "interrupt", "error"}
                => exit_code = 1
          /\ ended_by \in {"user said no", "no data", "no currencies",
                           "interrupt", "error"}

\* C8, its case: the run has exited with 0 after a conversion.
C8_Witness ==
    /\ pc = "exited"
    /\ exit_code = 0
    /\ result.kind = "value"

\* C9: with no fetched snapshot and a stored snapshot in use, the status
\* message says outdated exactly when now - fetchedAt >= 7 days.
C9_OutdatedFromSevenDays ==
    (/\ status_message.kind = "message"
     /\ fresh_data = None
     /\ db_data # None)
    => ((status_message.class = "outdated")
            <=> (now - db_data["timestamp"] >= 7 * UnitsPerDay))

\* The place of a catalog entry in the catalog.
CatalogIndex(e) == CHOOSE j \in 1..Len(CURRENCY_NAMES) : CURRENCY_NAMES[j] = e

\* C10: get_available_currencies returns catalog entries only, exactly those
\* whose code is in rates with a strictly positive rate, in catalog order.
C10_AvailableCurrencies ==
    pc = "get_available_currencies returned" =>
        LET m == rates_data["rates"].map
            n == Len(currencies)
        IN
        /\ \A i \in 1..n : \E j \in 1..Len(CURRENCY_NAMES) :
              CURRENCY_NAMES[j] = currencies[i]
        /\ {currencies[i][1] : i \in 1..n}
              = {c \in CatalogCodes : c \in DOMAIN m /\ m[c] > 0}
        /\ \A i \in 1..n : \A j \in 1..n :
              i < j => CatalogIndex(currencies[i]) < CatalogIndex(currencies[j])

\* C10, its case: two catalog currencies are returned, in catalog order,
\* while a catalog code with a rate <= 0 and a positive code outside the
\* catalog are left out.
C10_Witness ==
    /\ pc = "get_available_currencies returned"
    /\ Len(currencies) = 2
    /\ \E c \in CatalogCodes :
          /\ c \in DOMAIN rates_data["rates"].map
          /\ rates_data["rates"].map[c] <= 0
    /\ "XYZ" \in DOMAIN rates_data["rates"].map
    /\ rates_data["rates"].map["XYZ"] > 0


\* C11 as claimed: a new source-currency selection is requested only when
\* every completed round was followed by the repeat prompt, also a round in
\* which the same currency was selected twice.
C11_PromptAfterEveryRound == pc = "src" => pending_round = ""

\* C11 as amended: a round whose source and target differ is followed by the
\* repeat prompt, whether the conversion succeeded or failed, before a new
\* source selection is requested; a round in which the same currency was
\* selected twice goes back to the source selection with no conversion and
\* no repeat prompt.
C11_PromptAfterEveryConversion ==
    /\ pc \in {"src", "amount", "tgt", "convert"} =>
          pending_round \in {"", "same currency"}
    /\ pc = "repeat" =>
          /\ pending_round \in {"converted", "conversion error"}
          /\ src_code # tgt_code
    /\ (pc = "src" /\ pending_round = "same currency") => result = NoResult

\* C11, its case: a round with two different currencies has been completed
\* and the repeat prompt is shown.
C11_Witness ==
    /\ pc = "repeat"
    /\ pending_round = "converted"
    /\ result.kind = "value"

\* C12: load_db is called at most once and save_db completes at most once,
\* with the fetched snapshot only, whose document replaces the whole file;
\* without a fetched snapshot the file is what it was when the run started.
C12_StoreAccess ==
    /\ loads <= 1
    /\ saves <= 1
    /\ saves = 1 => (fresh_data # None /\ file = save_db(fresh_data))
    /\ fresh_data = None => (saves = 0 /\ file = file0)
    /\ file \in {file0, save_db(fresh_data), FileUnreadable}
    /\ file.kind = "missing" => file0.kind = "missing"

\* C12, its case: a run that found a corrupted store and fetched nothing has
\* ended, the file untouched.
C12_Witness ==
    /\ pc = "exited"
    /\ loads = 1
    /\ fresh_data = None
    /\ contacted # <<>>
    /\ CorruptedStore
    /\ file = file0

\* The codes of the list shown to the user.
ListedCodes == {currencies[i][1] : i \in 1..Len(currencies)}

\* C13: perform_conversion is called by the loop with two different codes
\* of the list computed from the active snapshot, the active snapshot does
\* not change once chosen, and no call of the loop fails.
C13_LoopConversionsNeverFail ==
    /\ [](/\ pc \in {"convert", "repeat"} =>
               /\ src_code \in ListedCodes
               /\ tgt_code \in ListedCodes
               /\ src_code # tgt_code
               /\ HasPositiveRate(rates_data, src_code)
               /\ HasPositiveRate(rates_data, tgt_code)
          /\ pc = "repeat" => result.kind = "value"
          /\ result.kind \in {"none", "value"})
    /\ [][AfterChoose => rates_data' = rates_data]_vars

\* C13, its case: the loop has converted against a stored snapshot in which
\* a catalog currency has the rate 0.
C13_Witness ==
    /\ pc = "repeat"
    /\ fresh_data = None
    /\ rates_data = db_data
    /\ "RUB" \in DOMAIN rates_data["rates"].map
    /\ rates_data["rates"].map["RUB"] = 0
    /\ result.kind = "value"

====
